---------------------------- MODULE Spec2Model ----------------------------
(***************************************************************************)
(* A model of rust-cpython's numeric conversions (src/objects/num.rs) and  *)
(* of the entry point generated by py_fn! (src/function.rs).               *)
(*                                                                         *)
(* TLC's integers are 32 bits wide, so a Python integer and a 64-bit host  *)
(* integer are written as five limbs <<l0, l1, l2, l3, top>> in base 2^16, *)
(* least significant first: l0..l3 are in 0..65535 and top is the signed   *)
(* rest, so that the value is top*2^64 + l3*2^48 + l2*2^32 + l1*2^16 + l0  *)
(* (two's complement: -1 is <<65535, 65535, 65535, 65535, -1>>).  The true *)
(* widths 8, 16, 32 and 64 are kept.                                       *)
(***************************************************************************)
EXTENDS Integers, Sequences, FiniteSets, TLC

VARIABLES
    target,     \* the build target: "lp64", "ilp32" or "llp64" (64-bit Windows)
    feature,    \* "python27-sys" or "python3-sys"
    pending,    \* the runtime's pending-exception slot: "none" or an exception type
    obj,        \* num: the foreign object at hand (NullObj: none yet)
    src,        \* num: the host value obj was made from by to_py_object, if any
    ext,        \* num: the host type the last extraction was made as ("none": none yet)
    res,        \* num: the outcome of the last extraction
    calls,      \* num: the runtime calls the last extraction made, in order
    pc,         \* fn: where the entry point wrap_f stands ("idle": not invoked)
    arm,        \* fn: the py_fn! arm that generated it: "plain" or "params"
    argv,       \* fn: the positional-args tuple the runtime passed
    kwv,        \* fn: the kwargs pointer the runtime passed: null, or a mapping
    guard,      \* fn: the PanicGuard is in place
    token,      \* fn: the Lock Token in scope: "none", "assumed" or "acquired"
    gil,        \* fn: the holder of the global lock: "caller" or "free"
    rc,         \* fn: the reference counts of args, kwargs and the result object
    rc0,        \* fn: the reference counts at entry
    incs,       \* fn: the increments the entry point made, per object
    decs,       \* fn: the decrements the entry point made, per object
    handles,    \* fn: the objects the entry point holds an owning handle of
    fres,       \* fn: what parsing and the host function gave: a PyResult
    called,     \* fn: the arguments the host function was called with, if it was
    ret,        \* fn: the pointer returned to the runtime
    restores,   \* fn: the errors restored into the pending slot
    panicked    \* fn: the step a panic was raised in ("none": no panic)

numvars == <<obj, src, ext, res, calls>>
fnvars  == <<pc, arm, argv, kwv, guard, token, gil, rc, rc0, incs, decs, handles,
             fres, called, ret, restores, panicked>>

-----------------------------------------------------------------------------
(* Wide integers *)

LimbMax == 2^16 - 1

Zero     == <<0, 0, 0, 0, 0>>
Top      == Len(Zero)
MinusOne == <<LimbMax, LimbMax, LimbMax, LimbMax, -1>>

\* a < b, most significant limb first
WLess(a, b) ==
    \E i \in 1..Top : a[i] < b[i] /\ \A j \in (i+1)..Top : a[j] = b[j]

WLeq(a, b) == a = b \/ WLess(a, b)

Clamp16(x) == IF x < 0 THEN 0 ELSE IF x > 16 THEN 16 ELSE x

\* the largest value of an integer type of w bits
MaxOf(w, signed) ==
    LET b == IF signed THEN w - 1 ELSE w
    IN  [i \in 1..Top |-> IF i = Top THEN 0 ELSE 2^Clamp16(b - 16*(i-1)) - 1]

\* the smallest: the complement of the largest, or zero
MinOf(w, signed) ==
    IF signed
      THEN [i \in 1..Top |-> IF i = Top THEN -1 ELSE LimbMax - MaxOf(w, signed)[i]]
      ELSE Zero

\* bit k (0 = least significant, k < 64) of v
Bit(v, k) == (v[(k \div 16) + 1] \div 2^(k % 16)) % 2

\* v as an integer of w bits: the low w bits, sign- or zero-extended (Rust's `as`)
WrapTo(w, signed, v) ==
    LET neg == signed /\ Bit(v, w - 1) = 1
    IN  [i \in 1..Top |->
           IF i = Top THEN (IF neg THEN -1 ELSE 0)
           ELSE LET k == w - 16*(i-1)
                IN  IF k >= 16 THEN v[i]
                    ELSE IF k > 0
                      THEN (v[i] % 2^k) + (IF neg THEN 2^16 - 2^k ELSE 0)
                      ELSE (IF neg THEN LimbMax ELSE 0)]

-----------------------------------------------------------------------------
(* Build targets and host types *)

Targets  == {"lp64", "ilp32", "llp64"}
Features == {"python27-sys", "python3-sys"}

\* cfg(all(target_pointer_width="64", not(target_os="windows")))
LongIs64(t) == t = "lp64"

PointerWidth(t) == IF t = "ilp32" THEN 32 ELSE 64

\* libc::c_long
LongBits(t) == IF LongIs64(t) THEN 64 ELSE 32

IntTypes == {"i8", "u8", "i16", "u16", "i32", "u32", "i64", "u64", "isize", "usize"}

Signed(T) == T \in {"i8", "i16", "i32", "i64", "isize", "c_long"}

Bits(T, t) ==
    CASE T \in {"i8", "u8"}       -> 8
      [] T \in {"i16", "u16"}     -> 16
      [] T \in {"i32", "u32"}     -> 32
      [] T \in {"i64", "u64"}     -> 64
      [] T \in {"isize", "usize"} -> PointerWidth(t)
      [] T = "c_long"             -> LongBits(t)

TMin(T, t) == MinOf(Bits(T, t), Signed(T))
TMax(T, t) == MaxOf(Bits(T, t), Signed(T))

InRange(T, t, v) == WLeq(TMin(T, t), v) /\ WLeq(v, TMax(T, t))

\* `v as T`
AsCast(T, t, v) == WrapTo(Bits(T, t), Signed(T), v)

Some(v) == [some |-> TRUE, v |-> v]
None    == [some |-> FALSE, v |-> Zero]

\* num::traits::cast::<_, T>(v): checked
NumCast(T, t, v) == IF InRange(T, t, v) THEN Some(v) ELSE None

\* the macro each host type is instantiated with
Impl(T, t) ==
    CASE T \in {"i8", "u8", "i16", "u16", "i32"} -> "int_fits_c_long"
      [] T = "u32"   -> IF LongIs64(t) THEN "int_fits_c_long" ELSE "int_fits_larger_int"
      [] T = "i64"   -> IF LongIs64(t) THEN "int_fits_c_long" ELSE "int_convert_u64_or_i64"
      [] T = "isize" -> IF LongIs64(t) THEN "int_fits_c_long" ELSE "int_fits_larger_int"
      [] T = "usize" -> "int_fits_larger_int"
      [] T = "u64"   -> "int_convert_u64_or_i64"

\* $larger_type of int_fits_larger_int
Larger(T) ==
    CASE T = "u32"   -> "u64"
      [] T = "isize" -> "i64"
      [] T = "usize" -> "u64"
      [] OTHER       -> T

-----------------------------------------------------------------------------
(* The foreign runtime: objects, constructors, accessors, the pending slot. *)
(* A float is n, or n and a half further from zero: its integer part is n.  *)
(* The rounding of integers above 2^53 to a double is not modelled.         *)

IntTags == {"PyInt", "PyLong"}

IntObj(tag, n)   == [tag |-> tag, n |-> n, half |-> FALSE]
FloatObj(n, hlf) == [tag |-> "PyFloat", n |-> n, half |-> hlf]
NoneObj          == [tag |-> "PyNone", n |-> Zero, half |-> FALSE]
NullObj          == [tag |-> "NULL", n |-> Zero, half |-> FALSE]

\* a runtime call returns a value and leaves the pending slot in a state
Ret(v, slot) == [ret |-> v, slot |-> slot]

PyInt_FromLong(v)              == IntObj("PyInt", v)
PyLong_FromLong(v)             == IntObj("PyLong", v)
PyLong_FromLongLong(v)         == IntObj("PyLong", v)
PyLong_FromUnsignedLongLong(v) == IntObj("PyLong", v)
PyFloat_FromDouble(d)          == FloatObj(d.n, d.half)

PyLong_Check(o)  == o.tag = "PyLong"
PyInt_Check(o)   == o.tag = "PyInt"
PyInt_AS_LONG(o) == o.n

\* the integer the runtime's number protocol (nb_int) gives for o
IsNumber(o) == o.tag \in IntTags \cup {"PyFloat"}

\* PyNumber_Long: a new PyLong, or NULL with TypeError pending
PyNumber_Long(o, slot) ==
    IF IsNumber(o) THEN Ret(IntObj("PyLong", o.n), slot)
    ELSE Ret(NullObj, "TypeError")

\* PyLong_AsLong: coerces through the number protocol itself; -1 with an
\* exception pending when o is no number or does not fit a C long
PyLong_AsLong(t, o, slot) ==
    IF ~IsNumber(o) THEN Ret(MinusOne, "TypeError")
    ELSE IF InRange("c_long", t, o.n) THEN Ret(o.n, slot)
    ELSE Ret(MinusOne, "OverflowError")

\* PyLong_AsLongLong: as PyLong_AsLong, for a long long
PyLong_AsLongLong(o, slot) ==
    IF ~IsNumber(o) THEN Ret(MinusOne, "TypeError")
    ELSE IF WLeq(MinOf(64, TRUE), o.n) /\ WLeq(o.n, MaxOf(64, TRUE)) THEN Ret(o.n, slot)
    ELSE Ret(MinusOne, "OverflowError")

\* PyLong_AsUnsignedLongLong: a PyLong only (anything else is a bad internal
\* call); (unsigned long long)-1 with OverflowError when negative or too big
PyLong_AsUnsignedLongLong(o, slot) ==
    IF ~PyLong_Check(o) THEN Ret(MaxOf(64, FALSE), "SystemError")
    ELSE IF WLeq(Zero, o.n) /\ WLeq(o.n, MaxOf(64, FALSE)) THEN Ret(o.n, slot)
    ELSE Ret(MaxOf(64, FALSE), "OverflowError")

F64(n, hlf) == [n |-> n, half |-> hlf]

\* PyFloat_AsDouble: -1.0 with TypeError pending when o is no number
PyFloat_AsDouble(o, slot) ==
    IF ~IsNumber(o) THEN Ret(F64(MinusOne, FALSE), "TypeError")
    ELSE Ret(F64(o.n, o.half), slot)

-----------------------------------------------------------------------------
(* The error bridge *)

NoErr == [ptype |-> "none", lazy |-> FALSE]

\* PyErr::occurred(py)
PyErr_occurred(slot) == slot # "none"

\* PyErr::fetch(py): takes the pending exception out of the slot
PyErr_fetch(slot) == [ptype |-> slot, lazy |-> FALSE]

\* PyErr::new_lazy_init(py.get_type::<exc::OverflowError>(), None)
overflow_error == [ptype |-> "OverflowError", lazy |-> TRUE]

Ok(v)  == [ok |-> TRUE, val |-> v, err |-> NoErr]
Err(e) == [ok |-> FALSE, val |-> Zero, err |-> e]

\* what an extraction leaves: its result, the slot, the runtime calls it made
Out(r, slot, cs) == [res |-> r, slot |-> slot, calls |-> cs]

Call(fn, o) == [fn |-> fn, arg |-> o]

-----------------------------------------------------------------------------
(* src/objects/num.rs *)

\* $pylong_from_ll_or_ull of int_convert_u64_or_i64!
pylong_from_ll_or_ull(T, v) ==
    IF T = "i64" THEN PyLong_FromLongLong(v) ELSE PyLong_FromUnsignedLongLong(v)

\* $pylong_as_ull_or_ull of int_convert_u64_or_i64!
pylong_as_ull_or_ull(T, o, slot) ==
    IF T = "i64" THEN PyLong_AsLongLong(o, slot) ELSE PyLong_AsUnsignedLongLong(o, slot)

pylong_as_name(T) ==
    IF T = "i64" THEN "PyLong_AsLongLong" ELSE "PyLong_AsUnsignedLongLong"

\* !0 as T
AllOnes(T, t) == AsCast(T, t, MinusOne)

Occurred == Call("PyErr_Occurred", NullObj)
Fetch    == Call("PyErr_Fetch", NullObj)

\* a variant of err_if_invalid_value that takes the sentinel for an error
\* without asking the pending slot
err_if_invalid_value_unchecked(invalid_value, r, cs) ==
    IF r.ret = invalid_value
      THEN Out(Err(PyErr_fetch(r.slot)), "none", cs \o <<Fetch>>)
      ELSE Out(Ok(r.ret), r.slot, cs)

\* err_if_invalid_value(obj, invalid_value, func): r is what func() returned and
\* left in the slot, cs the runtime calls so far (func's call last)
err_if_invalid_value(invalid_value, r, cs) ==
    IF r.ret = invalid_value
      THEN IF PyErr_occurred(r.slot)
             THEN Out(Err(PyErr_fetch(r.slot)), "none", cs \o <<Occurred, Fetch>>)
             ELSE Out(Ok(r.ret), r.slot, cs \o <<Occurred>>)
      ELSE Out(Ok(r.ret), r.slot, cs)

\* int_fits_c_long!: to_py_object
fits_c_long_to_py_object(T, t, f, v) ==
    IF f = "python27-sys"
      THEN PyInt_FromLong(AsCast("c_long", t, v))
      ELSE PyLong_FromLong(AsCast("c_long", t, v))

\* a variant of the int_fits_c_long! extract that narrows with `val as T`
fits_c_long_extract_as(T, t, o, slot) ==
    LET r  == PyLong_AsLong(t, o, slot)
        cs == <<Call("PyLong_AsLong", o)>>
    IN  IF r.ret = MinusOne
          THEN IF PyErr_occurred(r.slot)
                 THEN Out(Err(PyErr_fetch(r.slot)), "none", cs \o <<Occurred, Fetch>>)
                 ELSE Out(Ok(AsCast(T, t, r.ret)), r.slot, cs \o <<Occurred>>)
          ELSE Out(Ok(AsCast(T, t, r.ret)), r.slot, cs)

\* a variant of the int_fits_c_long! extract that returns the runtime's
\* exception as the error and leaves it in the pending slot
fits_c_long_extract_unfetched(T, t, o, slot) ==
    LET r  == PyLong_AsLong(t, o, slot)
        cs == <<Call("PyLong_AsLong", o)>>
        c  == NumCast(T, t, r.ret)
        cast(cs2) == IF c.some THEN Out(Ok(c.v), r.slot, cs2)
                     ELSE Out(Err(overflow_error), r.slot, cs2)
    IN  IF r.ret = MinusOne
          THEN IF PyErr_occurred(r.slot)
                 THEN Out(Err(PyErr_fetch(r.slot)), r.slot, cs \o <<Occurred>>)
                 ELSE cast(cs \o <<Occurred>>)
          ELSE cast(cs)

\* int_fits_c_long!: extract
fits_c_long_extract(T, t, o, slot) ==
    LET r  == PyLong_AsLong(t, o, slot)
        cs == <<Call("PyLong_AsLong", o)>>
        c  == NumCast(T, t, r.ret)
        cast(cs2) == IF c.some THEN Out(Ok(c.v), r.slot, cs2)
                     ELSE Out(Err(overflow_error), r.slot, cs2)
    IN  IF r.ret = MinusOne
          THEN IF PyErr_occurred(r.slot)
                 THEN Out(Err(PyErr_fetch(r.slot)), "none", cs \o <<Occurred, Fetch>>)
                 ELSE cast(cs \o <<Occurred>>)
          ELSE cast(cs)

\* a variant of the int_fits_larger_int! extract that reports every failure of
\* the larger type as an overflow
fits_larger_int_extract_remapped(T, t, larger) ==
    LET c == NumCast(T, t, larger.res.val)
    IN  IF larger.res.ok /\ c.some THEN Out(Ok(c.v), larger.slot, larger.calls)
        ELSE Out(Err(overflow_error), larger.slot, larger.calls)

\* int_fits_larger_int!: extract, given what obj.extract::<$larger_type>() left
fits_larger_int_extract(T, t, larger) ==
    IF ~larger.res.ok THEN larger
    ELSE LET c == NumCast(T, t, larger.res.val)
         IN  IF c.some THEN Out(Ok(c.v), larger.slot, larger.calls)
             ELSE Out(Err(overflow_error), larger.slot, larger.calls)

\* a variant of the int_convert_u64_or_i64! to_py_object that goes through a
\* C long unchecked, as int_fits_c_long! does
u64_or_i64_to_py_object_as_long(T, t, f, v) ==
    IF f = "python27-sys"
      THEN PyInt_FromLong(AsCast("c_long", t, v))
      ELSE PyLong_FromLong(AsCast("c_long", t, v))

\* int_convert_u64_or_i64!: to_py_object
u64_or_i64_to_py_object(T, t, f, v) ==
    IF f = "python27-sys"
      THEN LET c == NumCast("c_long", t, v)
           IN  IF c.some THEN PyInt_FromLong(c.v) ELSE pylong_from_ll_or_ull(T, v)
      ELSE pylong_from_ll_or_ull(T, v)

\* a variant of the PyNumber_Long branch that applies the accessor to the
\* object as it is
coerce_then_extract_direct(T, t, o, slot, cs) ==
    err_if_invalid_value(AllOnes(T, t), pylong_as_ull_or_ull(T, o, slot),
                         cs \o <<Call(pylong_as_name(T), o)>>)

\* int_convert_u64_or_i64!: the branch through PyNumber_Long
coerce_then_extract(T, t, o, slot, cs) ==
    LET num == PyNumber_Long(o, slot)
        cs1 == cs \o <<Call("PyNumber_Long", o)>>
    IN  IF num.ret = NullObj
          THEN Out(Err(PyErr_fetch(num.slot)), "none", cs1 \o <<Fetch>>)
          ELSE err_if_invalid_value(AllOnes(T, t),
                   pylong_as_ull_or_ull(T, num.ret, num.slot),
                   cs1 \o <<Call(pylong_as_name(T), num.ret)>>)

\* int_convert_u64_or_i64!: prepare_extract, then extract
u64_or_i64_extract(T, t, f, o, slot) ==
    LET cs == <<Call("PyLong_Check", o)>>
    IN  IF PyLong_Check(o)
          THEN err_if_invalid_value(AllOnes(T, t), pylong_as_ull_or_ull(T, o, slot),
                                    cs \o <<Call(pylong_as_name(T), o)>>)
        ELSE IF f = "python27-sys"
          THEN IF PyInt_Check(o)
                 THEN LET c == NumCast(T, t, PyInt_AS_LONG(o))
                          cs1 == cs \o <<Call("PyInt_Check", o), Call("PyInt_AS_LONG", o)>>
                      IN  IF c.some THEN Out(Ok(c.v), slot, cs1)
                          ELSE Out(Err(overflow_error), slot, cs1)
                 ELSE coerce_then_extract(T, t, o, slot, cs \o <<Call("PyInt_Check", o)>>)
          ELSE coerce_then_extract(T, t, o, slot, cs)

\* <T as ToPyObject>::to_py_object
RECURSIVE to_py_object(_, _, _, _)
to_py_object(T, t, f, v) ==
    CASE Impl(T, t) = "int_fits_c_long"        -> fits_c_long_to_py_object(T, t, f, v)
      [] Impl(T, t) = "int_fits_larger_int"    ->
             to_py_object(Larger(T), t, f, AsCast(Larger(T), t, v))
      [] Impl(T, t) = "int_convert_u64_or_i64" -> u64_or_i64_to_py_object(T, t, f, v)

\* obj.extract::<T>()
RECURSIVE extract(_, _, _, _, _)
extract(T, t, f, o, slot) ==
    CASE Impl(T, t) = "int_fits_c_long"        -> fits_c_long_extract(T, t, o, slot)
      [] Impl(T, t) = "int_fits_larger_int"    ->
             fits_larger_int_extract(T, t, extract(Larger(T), t, f, o, slot))
      [] Impl(T, t) = "int_convert_u64_or_i64" -> u64_or_i64_extract(T, t, f, o, slot)

MinusOneF64 == F64(MinusOne, FALSE)

\* f64: to_py_object
f64_to_py_object(d) == PyFloat_FromDouble(d)

\* a variant of the f64 extract that takes a PyFloat only
f64_extract_strict(o, slot) ==
    IF o.tag # "PyFloat"
      THEN Out(Err([ptype |-> "TypeError", lazy |-> TRUE]), slot, <<>>)
      ELSE Out(Ok(PyFloat_AsDouble(o, slot).ret), slot, <<Call("PyFloat_AsDouble", o)>>)

\* f64: extract
f64_extract(o, slot) ==
    LET r  == PyFloat_AsDouble(o, slot)
        cs == <<Call("PyFloat_AsDouble", o)>>
    IN  IF r.ret = MinusOneF64
          THEN IF PyErr_occurred(r.slot)
                 THEN Out(Err(PyErr_fetch(r.slot)), "none", cs \o <<Occurred, Fetch>>)
                 ELSE Out(Ok(r.ret), r.slot, cs \o <<Occurred>>)
          ELSE Out(Ok(r.ret), r.slot, cs)

-----------------------------------------------------------------------------
(* Inputs: the integers within Spread of zero, of 123 (the value of the     *)
(* repository's tests) and of every MIN and MAX of an 8, 16, 32 or 64 bit   *)
(* type.                                                                    *)

Spread == 1

WSucc(v) ==
    [i \in 1..Top |->
       IF \A j \in 1..(i-1) : v[j] = LimbMax
         THEN (IF i = Top THEN v[i] + 1 ELSE (v[i] + 1) % 2^16)
         ELSE v[i]]

WPred(v) ==
    [i \in 1..Top |->
       IF \A j \in 1..(i-1) : v[j] = 0
         THEN (IF i = Top THEN v[i] - 1 ELSE (v[i] + LimbMax) % 2^16)
         ELSE v[i]]

RECURSIVE Shift(_, _)
Shift(v, d) ==
    IF d = 0 THEN v
    ELSE IF d > 0 THEN Shift(WSucc(v), d - 1) ELSE Shift(WPred(v), d + 1)

Widths == {8, 16, 32, 64}

Marks ==
    {Zero, <<123, 0, 0, 0, 0>>}
      \cup {MinOf(w, TRUE) : w \in Widths}
      \cup {MaxOf(w, TRUE) : w \in Widths}
      \cup {MaxOf(w, FALSE) : w \in Widths}

Ints == {Shift(m, d) : m \in Marks, d \in (0 - Spread)..Spread}

\* the values of host type T
Values(T, t) == {v \in Ints : InRange(T, t, v)}

\* the foreign objects the runtime can hand over: a PyInt (Python 2) holds a C long
Objects(t, f) ==
    {IntObj("PyLong", n) : n \in Ints}
      \cup (IF f = "python27-sys" THEN {IntObj("PyInt", n) : n \in Values("c_long", t)}
            ELSE {})
      \cup {FloatObj(n, h) : n \in Ints, h \in BOOLEAN}
      \cup {NoneObj}

NoSrc == [some |-> FALSE, T |-> "none", v |-> Zero]
NoRes == [ok |-> FALSE, val |-> Zero, err |-> NoErr]

-----------------------------------------------------------------------------
(* Conversions as operations on the state *)

\* let obj = val.to_py_object(py).into_object()
ToPyObject(T, v) ==
    /\ obj = NullObj
    /\ obj' = to_py_object(T, target, feature, v)
    /\ src' = [some |-> TRUE, T |-> T, v |-> v]
    /\ UNCHANGED <<target, feature, pending, ext, res, calls>>
    /\ UNCHANGED fnvars

\* let obj = PyFloat::new(py, d).into_object()
ToPyFloat(d) ==
    /\ obj = NullObj
    /\ obj' = f64_to_py_object(d)
    /\ src' = [some |-> TRUE, T |-> "f64", v |-> d]
    /\ UNCHANGED <<target, feature, pending, ext, res, calls>>
    /\ UNCHANGED fnvars

\* an object made by the runtime or by foreign code reaches the host
Receive(o) ==
    /\ obj = NullObj
    /\ obj' = o
    /\ UNCHANGED <<target, feature, pending, src, ext, res, calls>>
    /\ UNCHANGED fnvars

\* obj.extract::<T>()
Extract(T) ==
    /\ obj # NullObj
    /\ ext = "none"
    /\ LET out == extract(T, target, feature, obj, pending)
       IN  /\ res' = out.res
           /\ pending' = out.slot
           /\ calls' = out.calls
    /\ ext' = T
    /\ UNCHANGED <<target, feature, obj, src>>
    /\ UNCHANGED fnvars

\* obj.extract::<f64>()
ExtractF64 ==
    /\ obj # NullObj
    /\ ext = "none"
    /\ LET out == f64_extract(obj, pending)
       IN  /\ res' = out.res
           /\ pending' = out.slot
           /\ calls' = out.calls
    /\ ext' = "f64"
    /\ UNCHANGED <<target, feature, obj, src>>
    /\ UNCHANGED fnvars

\* the object and the result go out of scope; the pending slot stays as it is
Forget ==
    /\ ext # "none"
    /\ obj' = NullObj
    /\ src' = NoSrc
    /\ ext' = "none"
    /\ res' = NoRes
    /\ calls' = <<>>
    /\ UNCHANGED <<target, feature, pending>>
    /\ UNCHANGED fnvars

vars == <<target, feature, pending, obj, src, ext, res, calls, pc, arm, argv, kwv,
          guard, token, gil, rc, rc0, incs, decs, handles, fres, called, ret,
          restores, panicked>>

Counted  == {"args", "kwargs", "result"}
NoCounts == [o \in Counted |-> 0]

NullKw == [null |-> TRUE, map |-> <<>>]
NoRet  == [tag |-> "unset", items |-> <<>>]
NoCall == [called |-> FALSE, a |-> Zero, b |-> [n |-> Zero, half |-> FALSE]]

\* no entry point is running
Idle ==
    /\ pc = "idle"
    /\ arm = "plain"
    /\ argv = <<>>
    /\ kwv = NullKw
    /\ guard = FALSE
    /\ token = "none"
    /\ gil = "free"
    /\ rc = NoCounts
    /\ rc0 = NoCounts
    /\ incs = NoCounts
    /\ decs = NoCounts
    /\ handles = {}
    /\ fres = NoRes
    /\ called = NoCall
    /\ ret = NoRet
    /\ restores = 0
    /\ panicked = "none"

Init ==
    /\ target \in Targets
    /\ feature \in Features
    /\ pending = "none"
    /\ obj = NullObj
    /\ src = NoSrc
    /\ ext = "none"
    /\ res = NoRes
    /\ calls = <<>>
    /\ Idle

Next ==
    \/ obj = NullObj /\ \E T \in IntTypes : \E v \in Values(T, target) : ToPyObject(T, v)
    \/ obj = NullObj /\ \E n \in Ints : \E h \in BOOLEAN : ToPyFloat(F64(n, h))
    \/ obj = NullObj /\ \E o \in Objects(target, feature) : Receive(o)
    \/ \E T \in IntTypes : Extract(T)
    \/ ExtractF64
    \/ Forget

\* the numeric conversions
Spec == Init /\ [][Next]_vars

-----------------------------------------------------------------------------
(* src/function.rs: the entry point wrap_f that py_fn! generates.  The code  *)
(* it calls (PanicGuard, bounded_assume_gil_acquired, the object handle,     *)
(* py_argparse!, PyErr::restore) lives in other files of the crate.          *)

MaxArgs == 3
MaxRefs == 2

Three == <<3, 0, 0, 0, 0>>
Four  == <<4, 0, 0, 0, 0>>

\* the objects foreign code passes positionally, and by keyword
ArgObjs == {IntObj("PyLong", Three), IntObj("PyLong", Four)}
KwObjs  == {IntObj("PyLong", Three), FloatObj(Four, FALSE), NoneObj}
KwNames == {"a", "b", "c"}

ArgTuples == UNION {[1..n -> ArgObjs] : n \in 0..MaxArgs}
KwMaps    == UNION {[S -> KwObjs] : S \in SUBSET KwNames}

KwOf(m)    == [null |-> FALSE, map |-> m]
KwPointers == {NullKw} \cup {KwOf(m) : m \in KwMaps}

\* the declared parameter list of py_fn!(f(a: i32, b: f64))
Params == <<[name |-> "a", type |-> "i32"], [name |-> "b", type |-> "f64"]>>

NullPtr == [tag |-> "NULL", items |-> <<>>]
CallOf(a, b) == [called |-> TRUE, a |-> a, b |-> b]

\* the errors a host function returns
HostErrors == {[ptype |-> "ValueError", lazy |-> TRUE]}

ArgumentError == [ptype |-> "ArgumentError", lazy |-> TRUE]

\* the value f(py, a, b) returns, and the value the f of the first arm returns
HostValue(a, b) == [a |-> a, b |-> b]
PlainValue == HostValue(<<123, 0, 0, 0, 0>>, F64(Zero, FALSE))

\* ToPyObject::into_py_object of f's value: a tuple of the two converted items
into_py_object(val, t, f) ==
    [tag |-> "PyTuple",
     items |-> <<to_py_object("i32", t, f, val.a), f64_to_py_object(val.b)>>]

\* py_argparse!: the object given for each declared parameter, or an argument
\* error: too many arguments, an unknown keyword, a required argument missing
parse_args(params, av, kw) ==
    LET names == IF kw.null THEN {} ELSE DOMAIN kw.map
        given(i) == IF i <= Len(av) THEN av[i] ELSE kw.map[params[i].name]
    IN  IF Len(av) + Cardinality(names) > Len(params) THEN Err(ArgumentError)
        ELSE IF \E k \in names : \A i \in DOMAIN params : params[i].name # k
          THEN Err(ArgumentError)
        ELSE IF \E i \in DOMAIN params : i > Len(av) /\ params[i].name \notin names
          THEN Err(ArgumentError)
        ELSE Ok([i \in DOMAIN params |-> given(i)])

\* PyObject::from_borrowed_ptr: increments the count; the handle owns one reference
from_borrowed_ptr(o) ==
    /\ rc' = [rc EXCEPT ![o] = @ + 1]
    /\ incs' = [incs EXCEPT ![o] = @ + 1]
    /\ handles' = handles \cup {o}

\* PyObject::from_owned_ptr: takes over a reference without incrementing
from_owned_ptr(o) ==
    /\ handles' = handles \cup {o}
    /\ UNCHANGED <<rc, incs>>

\* PyErr::restore: hands the error to the runtime's pending slot
restore(e) ==
    /\ pending' = e.ptype
    /\ restores' = restores + 1

\* the end of wrap_f's scope: the kwargs and args handles are dropped (one
\* decrement each), the token is dropped (only a token that acquired the lock
\* releases it), the guard is dropped
DropLocals ==
    /\ rc' = [o \in Counted |->
                IF o \in handles THEN rc[o] - 1
                ELSE IF o = "result" /\ fres.ok THEN 1 ELSE rc[o]]
    /\ decs' = [o \in Counted |-> IF o \in handles THEN decs[o] + 1 ELSE decs[o]]
    /\ handles' = {}
    /\ gil' = IF token = "acquired" THEN "free" ELSE gil
    /\ token' = "none"
    /\ guard' = FALSE

\* the runtime invokes wrap_f(_slf, args, kwargs): the calling thread holds the
\* global lock and no exception is pending
Enter(m, av, kw, n) ==
    /\ pc = "idle"
    /\ pc' = "L44"
    /\ arm' = m
    /\ argv' = av
    /\ kwv' = kw
    /\ gil' = "caller"
    /\ rc' = [o \in Counted |->
                IF o = "args" \/ (o = "kwargs" /\ ~kw.null) THEN n ELSE 0]
    /\ rc0' = rc'
    /\ UNCHANGED <<guard, token, incs, decs, handles, fres, called, ret, restores,
                   panicked>>
    /\ UNCHANGED <<target, feature, pending>>
    /\ UNCHANGED numvars

\* a variant of EstablishGuard that binds the guard to `_`, dropping it at once
EstablishGuard_dropped ==
    /\ pc = "L44"
    /\ guard' = FALSE
    /\ pc' = "L45"
    /\ UNCHANGED <<arm, argv, kwv, token, gil, rc, rc0, incs, decs, handles, fres,
                   called, ret, restores, panicked>>
    /\ UNCHANGED <<target, feature, pending>>
    /\ UNCHANGED numvars

\* let _guard = PanicGuard::with_message("Rust panic in py_fn!")
EstablishGuard ==
    /\ pc = "L44"
    /\ guard' = TRUE
    /\ pc' = "L45"
    /\ UNCHANGED <<arm, argv, kwv, token, gil, rc, rc0, incs, decs, handles, fres,
                   called, ret, restores, panicked>>
    /\ UNCHANGED <<target, feature, pending>>
    /\ UNCHANGED numvars

\* a variant of AssumeGil that takes the token by the blocking acquire, which
\* waits for a lock that is held
AssumeGil_acquire ==
    /\ pc = "L45"
    /\ token' = "acquired"
    /\ pc' = IF gil = "free" THEN "L46" ELSE "blocked"
    /\ UNCHANGED <<arm, argv, kwv, guard, gil, rc, rc0, incs, decs, handles, fres,
                   called, ret, restores, panicked>>
    /\ UNCHANGED <<target, feature, pending>>
    /\ UNCHANGED numvars

\* let py = bounded_assume_gil_acquired(&args)
AssumeGil ==
    /\ pc = "L45"
    /\ token' = "assumed"
    /\ pc' = "L46"
    /\ UNCHANGED <<arm, argv, kwv, guard, gil, rc, rc0, incs, decs, handles, fres,
                   called, ret, restores, panicked>>
    /\ UNCHANGED <<target, feature, pending>>
    /\ UNCHANGED numvars

\* a variant of WrapArgs that wraps the pointer with from_owned_ptr
WrapArgs_owned ==
    /\ pc = "L46"
    /\ from_owned_ptr("args")
    /\ pc' = "L48"
    /\ UNCHANGED <<arm, argv, kwv, guard, token, gil, rc0, decs, fres, called, ret,
                   restores, panicked>>
    /\ UNCHANGED <<target, feature, pending>>
    /\ UNCHANGED numvars

\* let args = PyObject::from_borrowed_ptr(py, args), downcast unchecked to PyTuple
WrapArgs ==
    /\ pc = "L46"
    /\ from_borrowed_ptr("args")
    /\ pc' = "L48"
    /\ UNCHANGED <<arm, argv, kwv, guard, token, gil, rc0, decs, fres, called, ret,
                   restores, panicked>>
    /\ UNCHANGED <<target, feature, pending>>
    /\ UNCHANGED numvars

\* let kwargs = match PyObject::from_borrowed_ptr_opt(py, kwargs) { .. }
WrapKwargs ==
    /\ pc = "L48"
    /\ IF kwv.null THEN UNCHANGED <<rc, incs, handles>>
       ELSE from_borrowed_ptr("kwargs")
    /\ pc' = "L52"
    /\ UNCHANGED <<arm, argv, kwv, guard, token, gil, rc0, decs, fres, called, ret,
                   restores, panicked>>
    /\ UNCHANGED <<target, feature, pending>>
    /\ UNCHANGED numvars

\* match $f(py, &args, kwargs.as_ref()): the host function returns Ok or Err
CallPlain ==
    /\ pc = "L52"
    /\ arm = "plain"
    /\ \/ fres' = Ok(PlainValue)
       \/ \E e \in HostErrors : fres' = Err(e)
    /\ called' = CallOf(Zero, F64(Zero, FALSE))
    /\ pc' = "match"
    /\ UNCHANGED <<arm, argv, kwv, guard, token, gil, rc, rc0, incs, decs, handles,
                   ret, restores, panicked>>
    /\ UNCHANGED <<target, feature, pending>>
    /\ UNCHANGED numvars

\* what py_argparse! extracts for (a: i32, b: f64): a parse error, a's
\* extraction error, b's extraction error, or the two values
Parsed ==
    LET p == parse_args(Params, argv, kwv)
    IN  IF ~p.ok THEN [res |-> p, slot |-> pending]
        ELSE LET a == extract(Params[1].type, target, feature, p.val[1], pending)
             IN  IF ~a.res.ok THEN [res |-> a.res, slot |-> a.slot]
                 ELSE LET b == f64_extract(p.val[2], a.slot)
                      IN  IF ~b.res.ok THEN [res |-> b.res, slot |-> b.slot]
                          ELSE [res |-> Ok(HostValue(a.res.val, b.res.val)),
                                slot |-> b.slot]

\* match py_argparse!(py, Some("f"), &args, kwargs.as_ref(), (a: i32, b: f64)
\* { f(py, a, b) }): on an error f is not called and the error is the result;
\* otherwise f is called with the extracted a and b and returns Ok or Err
CallParsed ==
    /\ pc = "L52"
    /\ arm = "params"
    /\ pending' = Parsed.slot
    /\ IF ~Parsed.res.ok
         THEN fres' = Parsed.res /\ UNCHANGED called
         ELSE /\ called' = CallOf(Parsed.res.val.a, Parsed.res.val.b)
              /\ \/ fres' = Parsed.res
                 \/ \E e \in HostErrors : fres' = Err(e)
    /\ pc' = "match"
    /\ UNCHANGED <<arm, argv, kwv, guard, token, gil, rc, rc0, incs, decs, handles,
                   ret, restores, panicked>>
    /\ UNCHANGED <<target, feature>>
    /\ UNCHANGED numvars

\* Ok(val) => return into_py_object(val, py).into_object().steal_ptr(): the new
\* object carries one reference, which steal_ptr hands over without a decrement
ReturnObject ==
    /\ pc = "match"
    /\ fres.ok
    /\ ret' = into_py_object(fres.val, target, feature)
    /\ DropLocals
    /\ pc' = "returned"
    /\ UNCHANGED <<arm, argv, kwv, rc0, incs, fres, called, restores, panicked>>
    /\ UNCHANGED <<target, feature, pending>>
    /\ UNCHANGED numvars

\* a variant of Restore that leaves the error unrestored
Restore_skipped ==
    /\ pc = "match"
    /\ ~fres.ok
    /\ pc' = "L59"
    /\ UNCHANGED <<arm, argv, kwv, guard, token, gil, rc, rc0, incs, decs, handles,
                   fres, called, ret, restores, panicked>>
    /\ UNCHANGED <<target, feature, pending>>
    /\ UNCHANGED numvars

\* Err(e) => e.restore(py)
Restore ==
    /\ pc = "match"
    /\ ~fres.ok
    /\ restore(fres.err)
    /\ pc' = "L59"
    /\ UNCHANGED <<arm, argv, kwv, guard, token, gil, rc, rc0, incs, decs, handles,
                   fres, called, ret, panicked>>
    /\ UNCHANGED <<target, feature>>
    /\ UNCHANGED numvars

\* return ::std::ptr::null_mut()
ReturnNull ==
    /\ pc = "L59"
    /\ ret' = NullPtr
    /\ DropLocals
    /\ pc' = "returned"
    /\ UNCHANGED <<arm, argv, kwv, rc0, incs, fres, called, restores, panicked>>
    /\ UNCHANGED <<target, feature, pending>>
    /\ UNCHANGED numvars

\* the steps of wrap_f that run host code after line 44; at the call, host code
\* that can panic runs only when f itself is called
CanPanic ==
    \/ pc \in {"L45", "L46", "L48", "match", "L59"}
    \/ pc = "L52" /\ (arm = "plain" \/ Parsed.res.ok)

\* a panic unwinds: a PanicGuard in place ends the process (its drop while
\* panicking aborts); with none the panic crosses into the runtime's frames
Panic ==
    /\ CanPanic
    /\ panicked' = pc
    /\ pc' = IF guard THEN "aborted" ELSE "unwound"
    /\ UNCHANGED <<arm, argv, kwv, guard, token, gil, rc, rc0, incs, decs, handles,
                   fres, called, ret, restores>>
    /\ UNCHANGED <<target, feature, pending>>
    /\ UNCHANGED numvars

\* the runtime takes the returned pointer, or the pending exception, and goes on
Leave ==
    /\ pc = "returned"
    /\ pending' = "none"
    /\ pc' = "idle"
    /\ arm' = "plain"
    /\ argv' = <<>>
    /\ kwv' = NullKw
    /\ guard' = FALSE
    /\ token' = "none"
    /\ gil' = "free"
    /\ rc' = NoCounts
    /\ rc0' = NoCounts
    /\ incs' = NoCounts
    /\ decs' = NoCounts
    /\ handles' = {}
    /\ fres' = NoRes
    /\ called' = NoCall
    /\ ret' = NoRet
    /\ restores' = 0
    /\ panicked' = "none"
    /\ UNCHANGED <<target, feature>>
    /\ UNCHANGED numvars

NextFn ==
    \/ /\ pc = "idle"
       /\ \E m \in {"plain", "params"} : \E av \in ArgTuples : \E kw \in KwPointers :
            \E n \in 1..MaxRefs : Enter(m, av, kw, n)
    \/ EstablishGuard
    \/ AssumeGil
    \/ WrapArgs
    \/ WrapKwargs
    \/ CallPlain
    \/ CallParsed
    \/ ReturnObject
    \/ Restore
    \/ ReturnNull
    \/ Panic
    \/ Leave

\* the invocations of a py_fn! entry point
SpecFn == Init /\ [][NextFn]_vars

-----------------------------------------------------------------------------
(* Claims *)

Extracted == ext # "none"

\* C1: round trip. For every integer host type V, on every build target, a
\* value v of V converted with to_py_object and extracted as V gives Ok(v).
C1_RoundTrip ==
    (src.some /\ ext = src.T /\ ext \in IntTypes) => (res.ok /\ res.val = src.v)

\* C1 witness: i64::MIN has gone through the wide accessors of a 32-bit-long target
C1_Witness ==
    /\ src.some /\ src.T = "i64" /\ ext = "i64"
    /\ src.v = MinOf(64, TRUE)
    /\ ~LongIs64(target)
    /\ res.ok

\* C2: range check on extraction. An integer object of value n extracted as V
\* gives Ok(n) when n is in V's range and an OverflowError error otherwise.
C2_RangeCheck ==
    (obj.tag \in IntTags /\ ext \in IntTypes) =>
        IF InRange(ext, target, obj.n)
          THEN res.ok /\ res.val = obj.n
          ELSE ~res.ok /\ res.err.ptype = "OverflowError"

\* C2 witness: u32::MAX made from a u32 fails as i32 with OverflowError
C2_Witness ==
    /\ src.some /\ src.T = "u32" /\ src.v = MaxOf(32, FALSE)
    /\ ext = "i32"
    /\ ~res.ok /\ res.err.ptype = "OverflowError"

Accessors ==
    {"PyLong_AsLong", "PyLong_AsLongLong", "PyLong_AsUnsignedLongLong", "PyFloat_AsDouble"}

\* what the accessor of call c returned and left in the slot (empty before it)
AccRet(c) ==
    CASE c.fn = "PyLong_AsLong"             -> PyLong_AsLong(target, c.arg, "none")
      [] c.fn = "PyLong_AsLongLong"         -> PyLong_AsLongLong(c.arg, "none")
      [] c.fn = "PyLong_AsUnsignedLongLong" -> PyLong_AsUnsignedLongLong(c.arg, "none")
      [] c.fn = "PyFloat_AsDouble"          -> PyFloat_AsDouble(c.arg, "none")

\* the invalid-value sentinel of each accessor
Sentinel(fn) ==
    CASE fn = "PyLong_AsLong"             -> MinusOne
      [] fn = "PyLong_AsLongLong"         -> MinusOne
      [] fn = "PyLong_AsUnsignedLongLong" -> MaxOf(64, FALSE)
      [] fn = "PyFloat_AsDouble"          -> MinusOneF64

\* the calls of the last extraction whose accessor returned its sentinel
SentinelCalls ==
    {i \in DOMAIN calls :
        calls[i].fn \in Accessors /\ AccRet(calls[i]).ret = Sentinel(calls[i].fn)}

\* C3 as claimed: when an accessor returns its sentinel, the pending slot is
\* asked right after it, the extraction fails only if an exception is pending,
\* and otherwise it returns Ok(sentinel) and leaves no exception pending.
C3_AsClaimed ==
    Extracted =>
      \A i \in SentinelCalls :
        /\ i < Len(calls) /\ calls[i+1] = Occurred
        /\ ~res.ok => AccRet(calls[i]).slot # "none"
        /\ AccRet(calls[i]).slot = "none" =>
             (res.ok /\ res.val = Sentinel(calls[i].fn) /\ pending = "none")

\* the host type ext can hold the sentinel s
Holds(s) == ext = "f64" \/ InRange(ext, target, s)

\* C3, amended: when an accessor returns its sentinel, the pending slot is asked
\* right after it; a pending exception is fetched and returned as the error;
\* with none pending the sentinel is a value: Ok(sentinel) when the host type
\* can hold it, the range check's OverflowError when it cannot. No exception
\* is pending afterwards.
C3_Sentinel ==
    Extracted =>
      \A i \in SentinelCalls :
        LET r == AccRet(calls[i])
            s == Sentinel(calls[i].fn)
        IN  /\ i < Len(calls) /\ calls[i+1] = Occurred
            /\ pending = "none"
            /\ IF r.slot # "none"
                 THEN ~res.ok /\ res.err = [ptype |-> r.slot, lazy |-> FALSE]
                 ELSE IF Holds(s) THEN res.ok /\ res.val = s
                      ELSE ~res.ok /\ res.err = overflow_error

\* C3 witness: a float object of exactly -1.0 has been extracted as f64
C3_Witness ==
    /\ obj = FloatObj(MinusOne, FALSE)
    /\ ext = "f64"
    /\ res.ok /\ res.val = MinusOneF64
    /\ pending = "none"

\* the object PyNumber_Long makes of obj
Coerced == PyNumber_Long(obj, "none").ret

\* the last extraction went through PyNumber_Long(obj) before any accessor,
\* and applied its accessors to the coerced object
CoercedFirst ==
    /\ \E i \in DOMAIN calls :
         /\ calls[i] = Call("PyNumber_Long", obj)
         /\ \A j \in DOMAIN calls : calls[j].fn \in Accessors => j > i
    /\ \A j \in DOMAIN calls :
         calls[j].fn \in Accessors => (calls[j].arg = Coerced /\ calls[j].arg # obj)

\* C9 as claimed: for every integer host type, an object whose tag is not an
\* integer tag is coerced with PyNumber_Long before any accessor is applied.
C9_AsClaimed ==
    (ext \in IntTypes /\ obj.tag \notin IntTags) => CoercedFirst

\* the macro an extraction as T ends in
BaseImpl(T, t) ==
    IF Impl(T, t) = "int_fits_larger_int" THEN Impl(Larger(T), t) ELSE Impl(T, t)

\* C9, amended: the types handled by int_convert_u64_or_i64, and those that
\* delegate to them, coerce with PyNumber_Long first and apply the accessor to
\* the coerced object; the types handled by int_fits_c_long apply PyLong_AsLong
\* to the original object and make no PyNumber_Long call.
C9_Coercion ==
    (ext \in IntTypes /\ obj.tag \notin IntTags) =>
        IF BaseImpl(ext, target) = "int_convert_u64_or_i64"
          THEN CoercedFirst
          ELSE /\ calls[1] = Call("PyLong_AsLong", obj)
               /\ \A j \in DOMAIN calls : calls[j].fn # "PyNumber_Long"

\* C9 witness: a float object of 123.0 has been extracted as u64 through PyNumber_Long
C9_Witness ==
    /\ obj = FloatObj(<<123, 0, 0, 0, 0>>, FALSE)
    /\ ext = "u64"
    /\ calls[2] = Call("PyNumber_Long", obj)
    /\ res.ok /\ res.val = <<123, 0, 0, 0, 0>>

\* C10: delegation. A type declared with int_fits_larger_int converts to the
\* object its larger type makes of the same value, and its extraction is the
\* larger type's: Ok(w) when w is in the smaller range, OverflowError when it
\* is not, and the larger type's error unchanged.
C10_Delegation ==
    /\ (src.some /\ src.T \in IntTypes /\ Impl(src.T, target) = "int_fits_larger_int") =>
          obj = to_py_object(Larger(src.T), target, feature, src.v)
    /\ (ext \in IntTypes /\ Impl(ext, target) = "int_fits_larger_int") =>
          LET big == extract(Larger(ext), target, feature, obj, "none").res
          IN  IF big.ok
                THEN IF InRange(ext, target, big.val)
                       THEN res.ok /\ res.val = big.val
                       ELSE ~res.ok /\ res.err.ptype = "OverflowError"
                ELSE res = big

\* C10 witness: u32::MAX + 1 is Ok as u64 and has failed as u32 on a 32-bit-long target
C10_Witness ==
    /\ ext = "u32" /\ Impl("u32", target) = "int_fits_larger_int"
    /\ obj = IntObj("PyLong", WSucc(MaxOf(32, FALSE)))
    /\ extract("u64", target, feature, obj, "none").res.ok
    /\ ~res.ok /\ res.err.ptype = "OverflowError"

\* the exception the runtime call c raises into an empty slot ("none": nothing)
Raised(c) ==
    IF c.fn \in Accessors THEN AccRet(c).slot
    ELSE IF c.fn = "PyNumber_Long" THEN PyNumber_Long(c.arg, "none").slot
    ELSE "none"

\* the calls of the last extraction that raised, and those that fetched
Raising == {i \in DOMAIN calls : Raised(calls[i]) # "none"}
Fetches == {i \in DOMAIN calls : calls[i] = Fetch}

\* obj is a number whose integer value the host type ext cannot hold
OutOfRange == ext \in IntTypes /\ IsNumber(obj) /\ ~InRange(ext, target, obj.n)

\* C11: pending slot after extraction. Every extraction starts with the slot
\* empty and returns with it empty, Ok or Err. An exception raised by the
\* accessor or by PyNumber_Long is the last thing the runtime did, is fetched
\* once, as the last call, and is the Err value; when the runtime raised
\* nothing there is no fetch, and an Err is the lazily built OverflowError of
\* the range cast. An Err is returned only for a value out of the host type's
\* range or an object that is no number.
C11_PendingSlot ==
    /\ ~Extracted => pending = "none"
    /\ Extracted =>
         /\ pending = "none"
         /\ IF Raising # {}
              THEN LET i == CHOOSE k \in Raising : TRUE
                   IN  /\ Raising = {i}
                       /\ \A j \in DOMAIN calls : j > i => calls[j] \in {Occurred, Fetch}
                       /\ Fetches = {Len(calls)}
                       /\ res = Err([ptype |-> Raised(calls[i]), lazy |-> FALSE])
              ELSE /\ Fetches = {}
                   /\ ~res.ok => (res.err = overflow_error /\ res.err.lazy)
         /\ ~res.ok => (OutOfRange \/ ~IsNumber(obj))

\* C11 witness: an object that is no number has been extracted as i8; the
\* TypeError PyLong_AsLong raised was fetched and the slot is empty
C11_Witness ==
    /\ obj = NoneObj /\ ext = "i8"
    /\ calls = <<Call("PyLong_AsLong", obj), Occurred, Fetch>>
    /\ res = Err([ptype |-> "TypeError", lazy |-> FALSE])
    /\ pending = "none"

\* a second case of C11: 2^32 extracted as u32 where long is 32 bits fails in
\* the range cast with the lazy OverflowError and no fetch
C11_HostOverflow ==
    /\ obj = IntObj("PyLong", WSucc(MaxOf(32, FALSE))) /\ ext = "u32"
    /\ ~LongIs64(target)
    /\ res = Err(overflow_error)
    /\ Fetches = {}
    /\ pending = "none"

-----------------------------------------------------------------------------
(* Claims about the entry point *)

Running == pc \in {"L45", "L46", "L48", "L52", "match", "L59"}

\* C4: call outcome. An invocation that returns has either restored the error
\* of parsing or of the host function exactly once and returned null, or
\* returned the converted result with no error restored; null goes with a
\* restored exception and a pointer with none.
C4_Outcome ==
    pc = "returned" =>
       \/ /\ ~fres.ok
          /\ ret = NullPtr
          /\ restores = 1
          /\ pending = fres.err.ptype
       \/ /\ fres.ok
          /\ ret = into_py_object(fres.val, target, feature)
          /\ ret # NullPtr
          /\ restores = 0
          /\ pending = "none"

\* C4 witness: the host function of the first arm returned an error, which was
\* restored, and null was returned
C4_Witness ==
    /\ pc = "returned" /\ arm = "plain"
    /\ fres \in {Err(e) : e \in HostErrors}
    /\ ret = NullPtr /\ restores = 1 /\ pending = "ValueError"

\* C5: panic containment. The guard is in place at every step after the first,
\* before the token and before any handle exists, until the entry point
\* returns; a panic at any of these steps ends in an abort and never crosses
\* the foreign-call boundary.
C5_PanicContained ==
    /\ Running => guard
    /\ (token # "none" \/ handles # {}) => guard
    /\ pc # "unwound"
    /\ panicked # "none" => pc = "aborted"

\* C5 witness: a panic raised by the host function of the second arm, with both
\* argument handles live, ended in an abort
C5_Witness ==
    /\ pc = "aborted" /\ panicked = "L52" /\ arm = "params"
    /\ handles = {"args", "kwargs"}

\* C6: lock discipline. The token is only ever the assumed one, the entry point
\* never waits for the lock, the calling thread holds the lock at every step
\* and still holds it when the entry point has returned and the token is gone.
C6_LockHeld ==
    pc # "idle" =>
       /\ gil = "caller"
       /\ token \in {"none", "assumed"}
       /\ pc # "blocked"
       /\ pc \in {"L46", "L48", "L52", "match", "L59"} => token = "assumed"
       /\ pc = "returned" => token = "none"

\* C6 witness: the entry point has returned a result, its token is out of
\* scope and the caller holds the lock
C6_Witness ==
    /\ pc = "returned" /\ ret # NullPtr
    /\ token = "none" /\ gil = "caller"

\* C7: reference-count balance. At return the counts of the args tuple and of
\* a non-null kwargs mapping are those at entry, each incremented once and
\* decremented once; a null kwargs is not touched; the result object is never
\* decremented and carries the one reference handed to the runtime.
C7_RefBalance ==
    pc = "returned" =>
       /\ rc["args"] = rc0["args"] /\ incs["args"] = 1 /\ decs["args"] = 1
       /\ IF kwv.null
            THEN incs["kwargs"] = 0 /\ decs["kwargs"] = 0
            ELSE rc["kwargs"] = rc0["kwargs"] /\ incs["kwargs"] = 1 /\ decs["kwargs"] = 1
       /\ decs["result"] = 0
       /\ rc["result"] = IF ret = NullPtr THEN 0 ELSE 1

\* C7 witness: an invocation with a kwargs mapping has returned a result
C7_Witness ==
    /\ pc = "returned" /\ ~kwv.null /\ ret # NullPtr
    /\ rc["kwargs"] = rc0["kwargs"] /\ rc["result"] = 1

Three4  == CallOf(Three, F64(Four, FALSE))
Past52  == pc \in {"match", "L59", "returned"}

\* the arguments do not fit the parameter list: too many positional ones, an
\* unknown keyword, or a required parameter given neither way
BadArgs ==
    LET names == IF kwv.null THEN {} ELSE DOMAIN kwv.map
    IN  \/ Len(argv) > Len(Params)
        \/ names \ {"a", "b"} # {}
        \/ Len(argv) < 1 /\ "a" \notin names
        \/ Len(argv) < 2 /\ "b" \notin names

\* C8: argument parsing of py_fn!(f(a: i32, b: f64)). Positional (3, 4) calls
\* f with a=3, b=4.0; keywords b=4.0, a=3 call f with the same and give the
\* same result; positional (3,) alone is an argument error: f is not called,
\* the error is restored and null is returned. Extra positional arguments, a
\* missing argument and an unknown keyword are argument errors, not panics.
C8_ArgParsing ==
    arm = "params" =>
       /\ (Past52 /\ argv = <<IntObj("PyLong", Three), IntObj("PyLong", Four)>> /\ kwv.null)
            => called = Three4
       /\ (Past52 /\ argv = <<>> /\ ~kwv.null
             /\ kwv.map = [k \in {"a", "b"} |->
                             IF k = "a" THEN IntObj("PyLong", Three)
                             ELSE FloatObj(Four, FALSE)])
            => called = Three4
       /\ (pc = "returned" /\ called = Three4 /\ fres.ok)
            => ret = into_py_object(HostValue(Three, F64(Four, FALSE)), target, feature)
       /\ BadArgs => panicked # "L52"
       /\ (Past52 /\ BadArgs)
            => (fres = Err(ArgumentError) /\ ~called.called)
       /\ (pc = "returned" /\ BadArgs)
            => (ret = NullPtr /\ pending = "ArgumentError" /\ restores = 1)

\* C8 witness: called with keywords b=4.0, a=3 and no positional arguments, f
\* got a=3, b=4.0 and its result was returned
C8_Witness ==
    /\ arm = "params" /\ pc = "returned"
    /\ argv = <<>> /\ ~kwv.null /\ DOMAIN kwv.map = {"a", "b"}
    /\ kwv.map["b"] = FloatObj(Four, FALSE)
    /\ called = Three4
    /\ fres.ok /\ ret # NullPtr

=============================================================================
